---- MODULE Spec2Model ----
(***************************************************************************)
(* The task store of tanstack-todo (src/src/db/database.ts, class          *)
(* TanStackDatabase) and the board of src/src/App.tsx that drives it.      *)
(*                                                                         *)
(* A task is a record with the fields of taskSchema.  Timestamps are the   *)
(* millisecond readings of new Date(): now() formats a reading with        *)
(* toISOString() and every reader parses it back with                      *)
(* new Date(s).getTime(), which returns the same millisecond, so the model *)
(* keeps the reading itself.  dueDate is a set: {} stands for a missing,   *)
(* null or empty due date (all falsy to every reader in the code), {d} for *)
(* the string d, where [day |-> n] is the date string of day n, as a date  *)
(* input writes it, and [text |-> s] a string that is no date.  An input   *)
(* or update object is a record whose DOMAIN holds exactly the keys the    *)
(* caller supplied.                                                        *)
(***************************************************************************)
EXTENDS Integers, Sequences, FiniteSets, TLC

VARIABLES
    tasks,      \* TanStackDatabase.tasks: the in-memory array, in array order
    storage,    \* the value held under STORAGE_KEY by the storage medium
    dbReady,    \* TRUE once `new TanStackDatabase()` has returned
    clock,      \* the last reading of the millisecond wall clock
    nextId,     \* the ids crypto.randomUUID() has handed out so far
    view,       \* tasksQuery.data: the board's snapshot of getTasks()
    filters,    \* the board's TaskFilter state
    last        \* the last call: its name, arguments, locals and outcome

vars == <<tasks, storage, dbReady, clock, nextId, view, filters, last>>

-----------------------------------------------------------------------------
(* Bounds of the model. *)

MaxTasks == 3
MaxIds == 3
MaxTime == 1
MaxOrder == 2

-----------------------------------------------------------------------------
(* schema.ts *)

Statuses == <<"todo", "in-progress", "done">>

StatusSet == {Statuses[i] : i \in 1..Len(Statuses)}

Priorities == {"low", "medium", "high"}

\* A faulty variant: the ranks the other way round, done first.
statusOrder_DoneFirst(s) ==
    Len(Statuses) + 1 - CHOOSE i \in 1..Len(Statuses) : Statuses[i] = s

\* statusOrder: the lane rank used by getTasks.
statusOrder(s) == CHOOSE i \in 1..Len(Statuses) : Statuses[i] = s

Has(r, k) == k \in DOMAIN r

\* The defaults zod fills in for the keys an object leaves out.
WithDefaults(o) ==
    [k \in DOMAIN o \cup {"description", "status", "priority", "dueDate"} |->
        IF Has(o, k) THEN o[k]
        ELSE CASE k = "description" -> ""
               [] k = "status" -> "todo"
               [] k = "priority" -> "medium"
               [] OTHER -> {}]

\* A faulty variant: any title passes, the empty one too.
FieldsValid_AnyTitle(o) ==
    /\ Has(o, "title")
    /\ o.status \in StatusSet
    /\ o.priority \in Priorities
    /\ Has(o, "order") => o.order \in Nat

\* The checks shared by taskSchema and taskInputSchema.
FieldsValid(o) ==
    /\ Has(o, "title") /\ o.title # ""
    /\ o.status \in StatusSet
    /\ o.priority \in Priorities
    /\ Has(o, "order") => o.order \in Nat

\* taskInputSchema.safeParse(input).success
InputValid(input) == FieldsValid(WithDefaults(input))

\* taskSchema: order defaults to 0; id, createdAt and updatedAt are required.
TaskDefaults(o) ==
    LET d == WithDefaults(o)
    IN  [k \in DOMAIN d \cup {"order"} |-> IF Has(d, k) THEN d[k] ELSE 0]

TaskValid(o) ==
    /\ Has(o, "id") /\ Has(o, "createdAt") /\ Has(o, "updatedAt")
    /\ FieldsValid(TaskDefaults(o))

-----------------------------------------------------------------------------
(* Sequence helpers standing for the Array methods the code uses. *)

RECURSIVE FilterSeq(_, _)
\* Array.prototype.filter with the test `task.status === status`.
FilterSeq(seq, status) ==
    IF seq = <<>> THEN <<>>
    ELSE LET rest == FilterSeq(Tail(seq), status)
         IN  IF Head(seq).status = status THEN <<Head(seq)>> \o rest ELSE rest

\* A faulty variant: a miss (-1) taken as an index from the end, as at(-1) would.
FindIndex_LastOnMiss(seq, id) ==
    IF \E i \in 1..Len(seq) : seq[i].id = id
    THEN CHOOSE i \in 1..Len(seq) :
            /\ seq[i].id = id
            /\ \A j \in 1..(i - 1) : seq[j].id # id
    ELSE Len(seq)

\* findIndex((t) => t.id === id): the first position holding id, 0 for -1.
FindIndex(seq, id) ==
    IF \E i \in 1..Len(seq) : seq[i].id = id
    THEN CHOOSE i \in 1..Len(seq) :
            /\ seq[i].id = id
            /\ \A j \in 1..(i - 1) : seq[j].id # id
    ELSE 0

\* A faulty variant: the tie-break the other way round, oldest update first.
CompareOrder_OldestFirst(a, b) ==
    IF a.order # b.order THEN a.order - b.order ELSE a.updatedAt - b.updatedAt

\* A faulty variant: the keys the other way round, the latest update first
\* and order only on a tie.
CompareOrder_RecentFirst(a, b) ==
    IF a.updatedAt # b.updatedAt THEN b.updatedAt - a.updatedAt ELSE a.order - b.order

\* The comparator of normalizeOrders and normalizeStatusOrders: order
\* ascending, then updatedAt descending.
CompareOrder(a, b) ==
    IF a.order # b.order THEN a.order - b.order ELSE b.updatedAt - a.updatedAt

RECURSIVE InsertSorted(_, _)
InsertSorted(sorted, t) ==
    IF sorted = <<>> THEN <<t>>
    ELSE IF CompareOrder(Head(sorted), t) <= 0
         THEN <<Head(sorted)>> \o InsertSorted(Tail(sorted), t)
         ELSE <<t>> \o sorted

RECURSIVE SortByOrder(_)
\* Array.prototype.sort with CompareOrder; the sort is stable, so elements
\* that compare equal keep their array order.
SortByOrder(seq) ==
    IF seq = <<>> THEN <<>>
    ELSE InsertSorted(SortByOrder(SubSeq(seq, 1, Len(seq) - 1)), seq[Len(seq)])

-----------------------------------------------------------------------------
(* database.ts: the private helpers of TanStackDatabase. *)

\* The lane of `status`, in array order.
Lane(ts, status) == FilterSeq(ts, status)

RECURSIVE MaxOrderOf(_)
\* Math.max(...inStatus.map((task) => task.order ?? 0)) of a non-empty list.
MaxOrderOf(seq) ==
    IF Len(seq) = 1 THEN seq[1].order
    ELSE LET m == MaxOrderOf(Tail(seq))
         IN  IF Head(seq).order > m THEN Head(seq).order ELSE m

\* A faulty variant: the lane's maximum is never looked at.
nextOrderForStatus_Zero(ts, status) == 0

nextOrderForStatus(ts, status) ==
    LET inStatus == Lane(ts, status)
    IN  IF Len(inStatus) = 0 THEN 0 ELSE MaxOrderOf(inStatus) + 1

RECURSIVE Renumber(_, _)
\* sorted.forEach((task, index) => normalized.push({...task, status, order: index}))
Renumber(sorted, index) ==
    IF sorted = <<>> THEN <<>>
    ELSE <<[Head(sorted) EXCEPT !.order = index]>>
            \o Renumber(Tail(sorted), index + 1)

RECURSIVE NormalizeFrom(_, _)
NormalizeFrom(ts, i) ==
    IF i > Len(Statuses) THEN <<>>
    ELSE Renumber(SortByOrder(Lane(ts, Statuses[i])), 0) \o NormalizeFrom(ts, i + 1)

\* normalizeOrders: the lanes one after another, each sorted and renumbered.
normalizeOrders(ts) == NormalizeFrom(ts, 1)

RECURSIVE AssignOrders_Stamps(_, _, _)
\* A faulty variant: a renumbered task also gets the latest updatedAt of the
\* collection.
AssignOrders_Stamps(ts, ordered, index) ==
    IF ordered = <<>> THEN ts
    ELSE LET idx == FindIndex(ts, Head(ordered).id)
             latest == CHOOSE m \in {ts[i].updatedAt : i \in 1..Len(ts)} :
                            \A i \in 1..Len(ts) : ts[i].updatedAt <= m
             ts2 == IF idx # 0
                    THEN [ts EXCEPT ![idx].order = index, ![idx].updatedAt = latest]
                    ELSE ts
         IN  AssignOrders_Stamps(ts2, Tail(ordered), index + 1)

RECURSIVE AssignOrders(_, _, _)
\* ordered.forEach((task, index) => { idx = findIndex(id); tasks[idx].order = index })
AssignOrders(ts, ordered, index) ==
    IF ordered = <<>> THEN ts
    ELSE LET idx == FindIndex(ts, Head(ordered).id)
             ts2 == IF idx # 0 THEN [ts EXCEPT ![idx].order = index] ELSE ts
         IN  AssignOrders(ts2, Tail(ordered), index + 1)

\* A faulty variant: the lane is left as it is.
normalizeStatusOrders_NoRenumber(ts, status) == ts

normalizeStatusOrders(ts, status) ==
    AssignOrders(ts, SortByOrder(Lane(ts, status)), 0)

\* A faulty variant: a serializer that leaves the order field out.
Serialize_OmitsOrder(ts) ==
    [kind |-> "array",
     items |-> [i \in 1..Len(ts) |->
                    [k \in DOMAIN ts[i] \ {"order"} |-> ts[i][k]]]]

\* JSON.stringify(this.tasks): the array with every field of every task.
Serialize(ts) == [kind |-> "array", items |-> ts]

\* A faulty variant: only the open tasks are written.
persist_OpenOnly(ts) == Serialize(SelectSeq(ts, LAMBDA t : t.status # "done"))

\* persist(): the value setItem leaves under STORAGE_KEY.
persist(ts) == Serialize(ts)

-----------------------------------------------------------------------------
(* The values the storage medium can hold when the page loads. *)

\* getItem returns null.
Absent == [kind |-> "absent"]

\* The empty string.
EmptyText == [kind |-> "empty"]

\* A text JSON.parse rejects.
Garbage == [kind |-> "garbage"]

\* Valid JSON that is no array.
JsonObject == [kind |-> "object"]

\* An array holding a record taskSchema rejects (its title is empty).
InvalidArray ==
    [kind |-> "array",
     items |-> <<[id |-> 1, title |-> "", status |-> "todo", priority |-> "low",
                  order |-> 0, createdAt |-> 0, updatedAt |-> 0]>>]

\* An array written before tasks had an order: taskSchema fills in order 0.
LegacyArray ==
    [kind |-> "array",
     items |-> <<[id |-> 1, title |-> "a", description |-> "", status |-> "done",
                  priority |-> "medium", dueDate |-> {}, createdAt |-> 0, updatedAt |-> 0],
                 [id |-> 2, title |-> "a", description |-> "", status |-> "done",
                  priority |-> "medium", dueDate |-> {}, createdAt |-> 0, updatedAt |-> 0]>>]

InitialStorage == {Absent, EmptyText, Garbage, JsonObject, InvalidArray, LegacyArray}

\* `if (saved)`: null and the empty string are falsy.
Truthy(saved) == saved.kind \notin {"absent", "empty"}

\* JSON.parse(saved) returns instead of throwing a SyntaxError.
JsonParses(saved) == saved.kind \in {"object", "array"}

\* z.array(taskSchema).safeParse(value).success
ArraySchemaValid(saved) ==
    /\ saved.kind = "array"
    /\ \A i \in 1..Len(saved.items) : TaskValid(saved.items[i])

\* parsed.data: every record with the schema's defaults filled in.
ParsedData(saved) == [i \in 1..Len(saved.items) |-> TaskDefaults(saved.items[i])]

\* bootstrap(), called by the constructor: the outcome, the collection and the
\* stored value it leaves.  A SyntaxError from JSON.parse is not caught.
bootstrap(saved) ==
    IF Truthy(saved) /\ ~JsonParses(saved)
    THEN [res |-> "SyntaxError", tasks |-> <<>>, storage |-> saved]
    ELSE IF Truthy(saved) /\ ArraySchemaValid(saved)
    THEN [res |-> "ok", tasks |-> normalizeOrders(ParsedData(saved)), storage |-> saved]
    ELSE [res |-> "ok", tasks |-> <<>>, storage |-> persist(<<>>)]

-----------------------------------------------------------------------------
(* database.ts: the public methods, as functions of the collection. *)

\* addTask(input) with `id` from crypto.randomUUID() and `timestamp` from now().
addTask(ts, input, id, timestamp) ==
    IF ~InputValid(input)
    THEN [res |-> "ZodError", tasks |-> ts, ret |-> <<>>]
    ELSE LET parsed == WithDefaults(input)
             task == [id |-> id,
                      title |-> parsed.title,
                      description |-> parsed.description,
                      status |-> parsed.status,
                      priority |-> parsed.priority,
                      dueDate |-> parsed.dueDate,
                      order |-> IF Has(parsed, "order") THEN parsed.order
                                ELSE nextOrderForStatus(ts, parsed.status),
                      createdAt |-> timestamp,
                      updatedAt |-> timestamp]
         IN  [res |-> "ok",
              tasks |-> normalizeStatusOrders(Append(ts, task), task.status),
              ret |-> <<task>>]

\* A faulty variant: an update without an order takes the next free order of
\* the target lane.
MergeUpdate_NextOrder(old, update, targetStatus, nextOrder, timestamp) ==
    [k \in DOMAIN old |->
        CASE k = "updatedAt" -> timestamp
          [] k # "updatedAt" /\ Has(update, k) -> update[k]
          [] k = "status" /\ ~Has(update, k) -> targetStatus
          [] k = "order" /\ ~Has(update, k) -> nextOrder
          [] OTHER -> old[k]]

\* The object literal handed to taskSchema.parse in updateTask: the stored
\* record, then status and order, then the update's own keys, then updatedAt.
MergeUpdate(old, update, targetStatus, nextOrder, timestamp) ==
    [k \in DOMAIN old |->
        CASE k = "updatedAt" -> timestamp
          [] k # "updatedAt" /\ Has(update, k) -> update[k]
          [] k = "status" /\ ~Has(update, k) -> targetStatus
          [] k = "order" /\ ~Has(update, k) ->
                IF Has(old, "order") THEN old.order ELSE nextOrder
          [] OTHER -> old[k]]

\* updateTask(update) with `timestamp` from now().
updateTask(ts, update, timestamp) ==
    LET idx == FindIndex(ts, update.id)
    IN  IF idx = 0
        THEN [res |-> "NotFound", tasks |-> ts, ret |-> <<>>]
        ELSE LET originalStatus == ts[idx].status
                 targetStatus == IF Has(update, "status") THEN update.status
                                 ELSE ts[idx].status
                 merged == MergeUpdate(ts[idx], update, targetStatus,
                                       nextOrderForStatus(ts, targetStatus), timestamp)
             IN  IF ~TaskValid(merged)
                 THEN [res |-> "ZodError", tasks |-> ts, ret |-> <<>>]
                 ELSE [res |-> "ok",
                       tasks |-> normalizeStatusOrders(
                                    normalizeStatusOrders([ts EXCEPT ![idx] = merged],
                                                          originalStatus),
                                    merged.status),
                       ret |-> <<merged>>]

\* A faulty variant: splice(findIndex(id), 1), which takes the last task on a miss.
RemoveId_Splice(seq, id) ==
    LET idx == IF FindIndex(seq, id) = 0 THEN Len(seq) ELSE FindIndex(seq, id)
    IN  SubSeq(seq, 1, idx - 1) \o SubSeq(seq, idx + 1, Len(seq))

RECURSIVE RemoveId(_, _)
\* this.tasks.filter((task) => task.id !== id)
RemoveId(seq, id) ==
    IF seq = <<>> THEN <<>>
    ELSE IF Head(seq).id # id THEN <<Head(seq)>> \o RemoveId(Tail(seq), id)
         ELSE RemoveId(Tail(seq), id)

\* A faulty variant: the task is taken out and its lane left as it is.
deleteTask_NoRenumber(ts, id) ==
    [res |-> "ok", tasks |-> RemoveId(ts, id), ret |-> <<>>]

\* deleteTask(id)
deleteTask(ts, id) ==
    LET idx == FindIndex(ts, id)
        kept == RemoveId(ts, id)
    IN  [res |-> "ok",
         tasks |-> IF idx # 0 THEN normalizeStatusOrders(kept, ts[idx].status) ELSE kept,
         ret |-> <<>>]

RECURSIVE InsertByRank(_, _)
InsertByRank(sorted, t) ==
    IF sorted = <<>> THEN <<t>>
    ELSE LET h == Head(sorted)
             cmp == IF statusOrder(h.status) # statusOrder(t.status)
                    THEN statusOrder(h.status) - statusOrder(t.status)
                    ELSE IF h.order # t.order THEN h.order - t.order
                    ELSE t.updatedAt - h.updatedAt
         IN  IF cmp <= 0 THEN <<h>> \o InsertByRank(Tail(sorted), t)
             ELSE <<t>> \o sorted

RECURSIVE getTasks(_)
\* getTasks(): a sorted copy (stable sort) by lane rank, order, then
\* updatedAt descending.
getTasks(ts) ==
    IF ts = <<>> THEN <<>>
    ELSE InsertByRank(getTasks(SubSeq(ts, 1, Len(ts) - 1)), ts[Len(ts)])

-----------------------------------------------------------------------------
(* The inputs the model draws. *)

Titles == {"a"}

Orders == 0..MaxOrder

\* The objects handed to addTask: with and without an explicit order, with
\* the schema's defaults left out, and one with an empty title.
AddInputs ==
    {[title |-> t, status |-> s] : t \in Titles, s \in StatusSet}
        \cup {[title |-> t, status |-> s, order |-> k] :
                t \in Titles, s \in StatusSet, k \in Orders}
        \cup {[title |-> "a"], [title |-> ""]}

\* Values the schema rejects: an empty title, a status and a priority outside
\* the enums, a negative order.
InvalidFields ==
    {[title |-> ""], [status |-> "blocked"], [priority |-> "urgent"], [order |-> -1]}

\* The keys an update carries besides the id: a lane, an order, both, an
\* updatedAt of the caller's (TaskUpdate has the key), or a value the schema
\* rejects.
UpdateFields ==
    {[status |-> s, order |-> k] : s \in StatusSet, k \in Orders}
        \cup {[order |-> k] : k \in Orders}
        \cup {[status |-> s] : s \in StatusSet}
        \cup {[updatedAt |-> MaxTime + 1]}
        \cup InvalidFields

\* {id, ...fields}
WithId(id, fields) ==
    [k \in DOMAIN fields \cup {"id"} |-> IF k = "id" THEN id ELSE fields[k]]

\* The payload of handleStatusChange(task, status), as db.updateTask gets it:
\* {id, ...toFormValue(task), status}; a task without due date gets ''.
StatusChangePayload(task, status) ==
    [id |-> task.id, title |-> task.title, description |-> task.description,
     priority |-> task.priority, status |-> status,
     dueDate |-> IF task.dueDate = {} THEN {[text |-> ""]} ELSE task.dueDate]

\* The updates that leave the lane and the order of `task` alone: one field
\* of the editor changed, the editor's whole form ({...form} carries the
\* task's own status), and the task's own status or order handed back.
EditorPayloads(task) ==
    {[id |-> task.id, title |-> "b"],
     [id |-> task.id, description |-> "b"],
     [id |-> task.id, priority |-> "high"],
     [id |-> task.id, dueDate |-> {[day |-> 1]}],
     [id |-> task.id, title |-> "b", description |-> task.description,
      status |-> task.status, priority |-> "high", dueDate |-> {}],
     [id |-> task.id, status |-> task.status],
     [id |-> task.id, order |-> task.order]}

\* An id that no task ever has.
MissingId == 999

IdsOf(ts) == {ts[i].id : i \in 1..Len(ts)}

\* The updates a caller can issue: any of the fields for a task of the
\* collection, and a lane change for an id the collection does not hold.
UpdateCalls ==
    {WithId(id, f) : id \in IdsOf(tasks), f \in UpdateFields}
        \cup {WithId(MissingId, [status |-> "done", order |-> 0])}

-----------------------------------------------------------------------------
(* The state after `export const db = new TanStackDatabase()`. *)

\* The board's initial filter state.
InitialFilters == [includeDone |-> TRUE]

\* A faulty variant: a generator that hands out the same id again.
randomUUID_Repeats == IF nextId > 0 THEN nextId ELSE 1

\* crypto.randomUUID(): an id never handed out before.
randomUUID == nextId + 1

\* What a constructor call leaves in `last`: its outcome, the kind of value
\* it read ("valid" for an array the schema accepted) and the clock's reading.
ConstructCall(saved, res) ==
    [op |-> "construct",
     res |-> res,
     saved |-> IF Truthy(saved) /\ ArraySchemaValid(saved) THEN "valid" ELSE saved.kind,
     at |-> 0]

Init ==
    \E saved \in InitialStorage :
        \E r \in {bootstrap(saved)} :
            /\ tasks = r.tasks
            /\ storage = r.storage
            /\ dbReady = (r.res = "ok")
            /\ view = <<>>
            /\ filters = InitialFilters
            /\ last = ConstructCall(saved, r.res)
            /\ clock = 0
            /\ nextId = Len(r.tasks)

\* The argument carries a value the schema's text rules out: an empty title,
\* a status or a priority that is no member of its enum, a negative order.
Unacceptable(arg) ==
    \/ Has(arg, "title") /\ arg.title = ""
    \/ Has(arg, "status") /\ \A i \in 1..Len(Statuses) : arg.status # Statuses[i]
    \/ Has(arg, "priority") /\ arg.priority \notin {"low", "medium", "high"}
    \/ Has(arg, "order") /\ arg.order < 0

\* What a call leaves in `last`: its name, its outcome, the id it is about,
\* the keys of its argument and whether one of them holds a value the schema
\* rules out, the lane the task was in when it was called ("" when the
\* collection does not hold the id) and the clock's reading.
Call(op, res, id, arg) ==
    [op |-> op, res |-> res, id |-> id, keys |-> DOMAIN arg,
     bad |-> Unacceptable(arg),
     from |-> IF FindIndex(tasks, id) = 0 THEN ""
              ELSE tasks[FindIndex(tasks, id)].status,
     at |-> clock]

\* A millisecond passes.  now() returns the clock's reading, so two calls
\* between which no millisecond passes get the same timestamp.
Tick ==
    /\ clock < MaxTime
    /\ clock' = clock + 1
    /\ UNCHANGED <<tasks, storage, dbReady, nextId, view, filters, last>>

AddTask ==
    /\ dbReady
    /\ Len(tasks) < MaxTasks
    /\ nextId < MaxIds
    /\ \E input \in AddInputs :
        \E r \in {addTask(tasks, input, randomUUID, clock)} :
            /\ tasks' = r.tasks
            /\ storage' = IF r.res = "ok" THEN persist(r.tasks) ELSE storage
            /\ nextId' = IF r.res = "ok" THEN nextId + 1 ELSE nextId
            /\ last' = Call("addTask", r.res, randomUUID, input)
            /\ UNCHANGED <<dbReady, clock, view, filters>>

UpdateTask ==
    /\ dbReady
    /\ \E update \in UpdateCalls :
        \E r \in {updateTask(tasks, update, clock)} :
            /\ tasks' = r.tasks
            /\ storage' = IF r.res = "ok" THEN persist(r.tasks) ELSE storage
            /\ last' = Call("updateTask", r.res, update.id, update)
            /\ UNCHANGED <<dbReady, clock, nextId, view, filters>>

DeleteTask ==
    /\ dbReady
    /\ \E id \in IdsOf(tasks) \cup {MissingId} :
        \E r \in {deleteTask(tasks, id)} :
            /\ tasks' = r.tasks
            /\ storage' = persist(r.tasks)
            /\ last' = Call("deleteTask", r.res, id, [id |-> id])
            /\ UNCHANGED <<dbReady, clock, nextId, view, filters>>

Next == AddTask \/ UpdateTask \/ DeleteTask \/ Tick

Spec == Init /\ [][Next]_vars

-----------------------------------------------------------------------------
(* database.ts applyFilters and App.tsx: the board. *)

\* new Date(s).getTime(): <<n>> for the date string of day n (its UTC
\* midnight, counted in days), <<>> for NaN, which a string that is no date
\* gives.
getTime(s) == IF Has(s, "day") THEN <<s.day>> ELSE <<>>

\* a <= b on two such values: false when either is NaN.
NumberLeq(a, b) == a # <<>> /\ b # <<>> /\ a[1] <= b[1]

\* A faulty variant: a filter that leaves includeDone out shows done tasks.
FilterKeeps_UnsetShowsDone(task, filter) ==
    /\ ~(/\ Has(filter, "includeDone") /\ ~filter.includeDone
         /\ task.status = "done")
    /\ ~(/\ Has(filter, "status")
         /\ filter.status # "all"
         /\ task.status # filter.status)
    /\ ~(/\ Has(filter, "priority")
         /\ filter.priority # "all"
         /\ task.priority # filter.priority)
    /\ (Has(filter, "dueBefore") /\ filter.dueBefore # {}) =>
            /\ task.dueDate # {}
            /\ \A d \in task.dueDate : \A b \in filter.dueBefore :
                    NumberLeq(getTime(d), getTime(b))

\* A faulty variant: a due date equal to the bound is dropped.
FilterKeeps_StrictBound(task, filter) ==
    /\ ~(/\ (~Has(filter, "includeDone") \/ ~filter.includeDone)
         /\ task.status = "done")
    /\ ~(/\ Has(filter, "status")
         /\ filter.status # "all"
         /\ task.status # filter.status)
    /\ ~(/\ Has(filter, "priority")
         /\ filter.priority # "all"
         /\ task.priority # filter.priority)
    /\ (Has(filter, "dueBefore") /\ filter.dueBefore # {}) =>
            /\ task.dueDate # {}
            /\ \A d \in task.dueDate : \A b \in filter.dueBefore :
                    NumberLeq(getTime(d), getTime(b)) /\ getTime(d) # getTime(b)

\* The test of applyFilters for one task.  A key the filter leaves out, an
\* empty string and `false` are all falsy.
FilterKeeps(task, filter) ==
    /\ ~(/\ (~Has(filter, "includeDone") \/ ~filter.includeDone)
         /\ task.status = "done")
    /\ ~(/\ Has(filter, "status")
         /\ filter.status # "all"
         /\ task.status # filter.status)
    /\ ~(/\ Has(filter, "priority")
         /\ filter.priority # "all"
         /\ task.priority # filter.priority)
    /\ (Has(filter, "dueBefore") /\ filter.dueBefore # {}) =>
            /\ task.dueDate # {}
            /\ \A d \in task.dueDate : \A b \in filter.dueBefore :
                    NumberLeq(getTime(d), getTime(b))

\* A faulty variant: the first task that passes is left out.
applyFilters_SkipsFirst(ts, filter) ==
    LET kept == SelectSeq(ts, LAMBDA t : FilterKeeps(t, filter))
    IN  IF kept = <<>> THEN <<>> ELSE Tail(kept)

\* applyFilters(tasks, filter)
applyFilters(ts, filter) == SelectSeq(ts, LAMBDA t : FilterKeeps(t, filter))

\* filteredTasks: nothing while the query has no data.
filteredTasks(data, filter) ==
    IF data = <<>> THEN <<>> ELSE applyFilters(data[1], filter)

RECURSIVE InsertByOrder(_, _)
InsertByOrder(sorted, t) ==
    IF sorted = <<>> THEN <<t>>
    ELSE IF Head(sorted).order - t.order <= 0
         THEN <<Head(sorted)>> \o InsertByOrder(Tail(sorted), t)
         ELSE <<t>> \o sorted

RECURSIVE SortAscending(_)
\* sort((a, b) => a.order - b.order), stable.
SortAscending(seq) ==
    IF seq = <<>> THEN <<>>
    ELSE InsertByOrder(SortAscending(SubSeq(seq, 1, Len(seq) - 1)), seq[Len(seq)])

\* statusBuckets: the filtered tasks of each lane by ascending order.
statusBuckets(data, filter) ==
    [s \in StatusSet |-> SortAscending(FilterSeq(filteredTasks(data, filter), s))]

\* list.splice(start, 0, item), start counted from 0; a negative start
\* counts from the end.
SpliceIn(list, start, item) ==
    LET at == IF start < 0
              THEN (IF Len(list) + start < 0 THEN 0 ELSE Len(list) + start)
              ELSE (IF start > Len(list) THEN Len(list) ELSE start)
    IN  SubSeq(list, 1, at) \o <<item>> \o SubSeq(list, at + 1, Len(list))

\* list.splice(index, 1), index counted from 0.
RemoveAt(list, index) ==
    SubSeq(list, 1, index) \o SubSeq(list, index + 2, Len(list))

\* arrayMove of @dnd-kit/sortable: a copy with the element at `from` taken
\* out and put back at `to`.
arrayMove(list, from, to) ==
    SpliceIn(RemoveAt(list, from), IF to < 0 THEN Len(list) + to ELSE to,
             list[from + 1])

RECURSIVE UpdatesFor(_, _, _, _)
\* ordered.forEach((task, index) => { if (needsUpdate) updates.push(...) })
UpdatesFor(data, status, ordered, index) ==
    IF ordered = <<>> THEN <<>>
    ELSE LET task == Head(ordered)
             original == FindIndex(data, task.id)
             needsUpdate == \/ original = 0
                            \/ data[original].status # status
                            \/ data[original].order # index
         IN  (IF needsUpdate
              THEN <<[id |-> task.id, status |-> status, order |-> index]>>
              ELSE <<>>)
                \o UpdatesFor(data, status, Tail(ordered), index + 1)

\* The body of persistBuckets' loop for one lane: the bucket, then the
\* snapshot's tasks of the lane that the bucket does not hold.
LaneUpdates(data, buckets, status) ==
    LET originals == SortAscending(FilterSeq(data, status))
        reservedIds == {buckets[status][i].id : i \in 1..Len(buckets[status])}
        untouched == SelectSeq(originals, LAMBDA t : t.id \notin reservedIds)
    IN  UpdatesFor(data, status, buckets[status] \o untouched, 0)

\* A faulty variant: the lanes taken from the last to the first.
persistBuckets_DoneFirst(data, buckets) ==
    LaneUpdates(data, buckets, Statuses[3])
        \o LaneUpdates(data, buckets, Statuses[2])
        \o LaneUpdates(data, buckets, Statuses[1])

\* persistBuckets(buckets): the updateTask calls it issues, in issue order.
persistBuckets(data, buckets) ==
    LaneUpdates(data, buckets, Statuses[1])
        \o LaneUpdates(data, buckets, Statuses[2])
        \o LaneUpdates(data, buckets, Statuses[3])

\* The drop targets of a drag: nothing, a lane's column, or a card.
NoTarget == [kind |-> "none"]

OverColumn(s) == [kind |-> "column", status |-> s]

OverTask(id) == [kind |-> "task", id |-> id]

\* A faulty variant: a drag that ends over nothing counts as a drop on the
\* first column.
handleDragEnd_NoTargetIsTodo(data, filter, activeId, dropped) ==
    IF data = <<>> THEN <<>>
    ELSE LET over == IF dropped.kind = "none" THEN OverColumn("todo") ELSE dropped IN
    IF FindIndex(data[1], activeId) = 0 THEN <<>>
    ELSE IF over.kind = "task" /\ FindIndex(data[1], over.id) = 0 THEN <<>>
    ELSE LET snapshot == data[1]
             buckets == statusBuckets(data, filter)
             sourceStatus == snapshot[FindIndex(snapshot, activeId)].status
             targetStatus == IF over.kind = "column" THEN over.status
                             ELSE snapshot[FindIndex(snapshot, over.id)].status
             targetIndex == IF over.kind = "column" THEN Len(buckets[targetStatus])
                            ELSE FindIndex(buckets[targetStatus], over.id) - 1
             sourceList == buckets[sourceStatus]
             fromIndex == FindIndex(sourceList, activeId) - 1
         IN  IF fromIndex = -1 THEN <<>>
             ELSE IF sourceStatus = targetStatus
             THEN IF fromIndex = targetIndex THEN <<>>
                  ELSE persistBuckets(snapshot,
                          [buckets EXCEPT
                              ![targetStatus] = arrayMove(sourceList, fromIndex, targetIndex)])
             ELSE persistBuckets(snapshot,
                      [buckets EXCEPT
                          ![sourceStatus] = RemoveAt(sourceList, fromIndex),
                          ![targetStatus] =
                              SpliceIn(buckets[targetStatus], targetIndex,
                                       [sourceList[fromIndex + 1] EXCEPT
                                            !.status = targetStatus])])

\* handleDragEnd({active, over}): the updateTask calls it issues, none when
\* it returns early.
handleDragEnd(data, filter, activeId, over) ==
    IF over.kind = "none" \/ data = <<>> THEN <<>>
    ELSE IF FindIndex(data[1], activeId) = 0 THEN <<>>
    ELSE IF over.kind = "task" /\ FindIndex(data[1], over.id) = 0 THEN <<>>
    ELSE LET snapshot == data[1]
             buckets == statusBuckets(data, filter)
             sourceStatus == snapshot[FindIndex(snapshot, activeId)].status
             targetStatus == IF over.kind = "column" THEN over.status
                             ELSE snapshot[FindIndex(snapshot, over.id)].status
             targetIndex == IF over.kind = "column" THEN Len(buckets[targetStatus])
                            ELSE FindIndex(buckets[targetStatus], over.id) - 1
             sourceList == buckets[sourceStatus]
             fromIndex == FindIndex(sourceList, activeId) - 1
         IN  IF fromIndex = -1 THEN <<>>
             ELSE IF sourceStatus = targetStatus
             THEN IF fromIndex = targetIndex THEN <<>>
                  ELSE persistBuckets(snapshot,
                          [buckets EXCEPT
                              ![targetStatus] = arrayMove(sourceList, fromIndex, targetIndex)])
             ELSE persistBuckets(snapshot,
                      [buckets EXCEPT
                          ![sourceStatus] = RemoveAt(sourceList, fromIndex),
                          ![targetStatus] =
                              SpliceIn(buckets[targetStatus], targetIndex,
                                       [sourceList[fromIndex + 1] EXCEPT
                                            !.status = targetStatus])])

RECURSIVE ApplyUpdates(_, _, _)
\* The calls of one drag, each run to completion before the next starts;
\* times[i] is what now() returns in the i-th call.  A call that throws
\* leaves the collection as it was and the following calls still run.
ApplyUpdates(ts, updates, times) ==
    IF updates = <<>> THEN ts
    ELSE ApplyUpdates(updateTask(ts, Head(updates), Head(times)).tasks,
                      Tail(updates), Tail(times))

\* The readings n successive calls of now() can return: none earlier than
\* the clock's, none earlier than the one before.
Readings(n) ==
    {t \in [1..n -> clock..MaxTime] : \A i \in 1..(n - 1) : t[i] <= t[i + 1]}

\* The values the editor's form submits for a new task.
FormValues ==
    {[title |-> "a", description |-> "", status |-> s, priority |-> "medium",
      dueDate |-> {}] : s \in StatusSet}

\* The filter states the filter panel is taken through.
FilterChoices ==
    {[includeDone |-> TRUE], [includeDone |-> FALSE]}

\* The ids of the cards the board shows.
Rendered == {filteredTasks(view, filters)[i].id :
                i \in 1..Len(filteredTasks(view, filters))}

DropTargets ==
    {NoTarget} \cup {OverColumn(s) : s \in StatusSet}
        \cup {OverTask(id) : id \in Rendered}

\* The editor's form is submitted for a new task: createTask.mutate(input).
HandleCreate ==
    /\ dbReady
    /\ Len(tasks) < MaxTasks
    /\ nextId < MaxIds
    /\ \E input \in FormValues :
        \E r \in {addTask(tasks, input, randomUUID, clock)} :
            /\ tasks' = r.tasks
            /\ storage' = persist(r.tasks)
            /\ nextId' = nextId + 1
            /\ last' = Call("addTask", r.res, randomUUID, input)
            /\ UNCHANGED <<dbReady, clock, view, filters>>

\* The query function runs: tasksQuery.data becomes what getTasks() returns.
Refetch ==
    /\ dbReady
    /\ view # <<getTasks(tasks)>>
    /\ view' = <<getTasks(tasks)>>
    /\ UNCHANGED <<tasks, storage, dbReady, clock, nextId, filters, last>>

\* The filter panel calls setFilters.
SetFilters ==
    /\ dbReady
    /\ \E f \in FilterChoices \ {filters} : filters' = f
    /\ UNCHANGED <<tasks, storage, dbReady, clock, nextId, view, last>>

\* A card is dropped: handleDragEnd and every call it issues.  A gesture
\* takes many turns of the event loop, so the refetch a previous drop started
\* has delivered its data when the next drop ends; a create can still have
\* completed in the turn before, which leaves the snapshot one task short.
HandleDragEnd ==
    /\ dbReady
    /\ view = <<getTasks(tasks)>> \/ last.op = "addTask"
    /\ \E activeId \in Rendered :
        \E over \in DropTargets :
            \E updates \in {handleDragEnd(view, filters, activeId, over)} :
                \E times \in Readings(Len(updates)) :
                    /\ tasks' = ApplyUpdates(tasks, updates, times)
                    /\ storage' = IF \E i \in 1..Len(updates) :
                                        updates[i].id \in IdsOf(tasks)
                                  THEN persist(tasks')
                                  ELSE storage
                    /\ clock' = IF updates = <<>> THEN clock
                                ELSE times[Len(updates)]
                    /\ last' = [op |-> "dragEnd",
                                res |-> IF updates = <<>> THEN "return"
                                        ELSE IF \A i \in 1..Len(updates) :
                                                    updates[i].id \in IdsOf(tasks)
                                        THEN "ok" ELSE "rejected",
                                id |-> activeId,
                                over |-> over,
                                at |-> clock']
                    /\ UNCHANGED <<dbReady, nextId, view, filters>>

NextBoard == HandleCreate \/ Refetch \/ SetFilters \/ HandleDragEnd \/ Tick

SpecBoard == Init /\ [][NextBoard]_vars

-----------------------------------------------------------------------------
(* updateTask called with the payloads that touch neither lane nor order. *)

\* The keys such a payload carries besides the id: a new title, or a
\* createdAt (TaskUpdate leaves the key out, and an object that has it is
\* still assignable to the type; nothing at run time takes it off).
PatchFields == {[title |-> "b"], [createdAt |-> MaxTime + 1]}

PatchTask ==
    /\ dbReady
    /\ \E id \in IdsOf(tasks) :
        \E f \in PatchFields :
            \E r \in {updateTask(tasks, WithId(id, f), clock)} :
                /\ tasks' = r.tasks
                /\ storage' = IF r.res = "ok" THEN persist(r.tasks) ELSE storage
                /\ last' = Call("updateTask", r.res, id, WithId(id, f))
                /\ UNCHANGED <<dbReady, clock, nextId, view, filters>>

NextEdit == HandleCreate \/ PatchTask \/ DeleteTask \/ Tick

SpecEdit == Init /\ [][NextEdit]_vars

-----------------------------------------------------------------------------
(* The board with tasks of two priorities and the panel's priority filter. *)

\* The values the editor's form submits, one after the other, when the
\* priority select is used: two tasks of different priority for one lane,
\* then a task for another lane.
PriorityForms ==
    [i \in 1..MaxIds |->
        [title |-> "a", description |-> "",
         status |-> IF i < MaxIds THEN "in-progress" ELSE "todo",
         priority |-> IF i = 1 THEN "high" ELSE "low",
         dueDate |-> {}]]

\* The filter state the priority select of the panel produces when a
\* priority is picked: onChange({...value, priority}).
PriorityChoices ==
    {[includeDone |-> TRUE, priority |-> "low"]}

HandleCreatePriority ==
    /\ dbReady
    /\ Len(tasks) < MaxTasks
    /\ nextId < MaxIds
    /\ \E input \in {PriorityForms[nextId + 1]} :
        \E r \in {addTask(tasks, input, randomUUID, clock)} :
            /\ tasks' = r.tasks
            /\ storage' = persist(r.tasks)
            /\ nextId' = nextId + 1
            /\ last' = Call("addTask", r.res, randomUUID, input)
            /\ UNCHANGED <<dbReady, clock, view, filters>>

SetPriority ==
    /\ dbReady
    /\ \E f \in PriorityChoices \ {filters} : filters' = f
    /\ UNCHANGED <<tasks, storage, dbReady, clock, nextId, view, last>>

\* The clock is read anew by every call of a drop (Readings), so time passes
\* during the drops; between the operations it is left as it is.
NextPanel == HandleCreatePriority \/ Refetch \/ SetPriority \/ HandleDragEnd

SpecPanel == Init /\ [][NextPanel]_vars

-----------------------------------------------------------------------------
(* applyFilters on its own: a pure function of a task list and a filter. *)

MaxList == 2
MaxDay == 3

\* The due dates of the sample tasks: none, a day, a string that is no date.
DueDates == {{}} \cup {{[day |-> d]} : d \in 1..MaxDay} \cup {{[text |-> "soon"]}}

\* What distinguishes one sample task from another for a filter.
TaskShapes ==
    [status : {"todo", "done"}, priority : {"low", "high"}, dueDate : DueDates]

\* The task lists handed to applyFilters: the i-th task has id i.
TaskLists ==
    UNION {{[i \in 1..n |->
                [id |-> i, title |-> "a", description |-> "", status |-> f[i].status,
                 priority |-> f[i].priority, dueDate |-> f[i].dueDate, order |-> 0,
                 createdAt |-> 0, updatedAt |-> 0]] : f \in [1..n -> TaskShapes]}
            : n \in 0..MaxList}

\* A record with the key k set to v added to each record of S, beside S itself.
WithKey(S, k, V) ==
    S \cup {[j \in DOMAIN r \cup {k} |-> IF j = k THEN v ELSE r[j]] : r \in S, v \in V}

\* The filters handed to applyFilters: every key left out or set.
FilterSpecs ==
    WithKey(WithKey(WithKey(WithKey({<<>>},
        "includeDone", {TRUE, FALSE}),
        "status", {"all", "todo", "done"}),
        "priority", {"all", "high"}),
        "dueBefore", {{[day |-> 2]}})

InitFilter ==
    /\ tasks = <<>>
    /\ storage = persist(<<>>)
    /\ dbReady = TRUE
    /\ clock = 0
    /\ nextId = 0
    /\ view \in {<<l>> : l \in TaskLists}
    /\ filters \in FilterSpecs
    /\ last = ConstructCall(Absent, "ok")

\* db.applyFilters(list, filter); `last` keeps the arguments and the result.
ApplyFilters ==
    /\ last' = [op |-> "applyFilters", arg |-> view[1], filter |-> filters,
                ret |-> applyFilters(view[1], filters), at |-> clock]
    /\ UNCHANGED <<tasks, storage, dbReady, clock, nextId, view, filters>>

\* The result of the last call becomes the list of the next one.
FilterAgain ==
    /\ last.op = "applyFilters"
    /\ view' = <<last.ret>>
    /\ UNCHANGED <<tasks, storage, dbReady, clock, nextId, filters, last>>

NextFilter == ApplyFilters \/ FilterAgain

SpecFilter == InitFilter /\ [][NextFilter]_vars

-----------------------------------------------------------------------------
(* What the properties below speak of. *)

\* The positions of the array that hold a task of lane s.
LanePositions(ts, s) == {i \in 1..Len(ts) : ts[i].status = s}

LaneSize(ts, s) == Cardinality(LanePositions(ts, s))

\* The order values of lane s are exactly 0 .. n-1.
LaneDense(ts, s) ==
    {ts[i].order : i \in LanePositions(ts, s)} = 0..(LaneSize(ts, s) - 1)

\* The ids of lane s by ascending order (for a dense lane).
LaneIds(ts, s) ==
    [k \in 1..LaneSize(ts, s) |->
        ts[CHOOSE i \in LanePositions(ts, s) : ts[i].order = k - 1].id]

\* The task holding id.
TaskOf(ts, id) == ts[CHOOSE i \in 1..Len(ts) : ts[i].id = id]

\* seq with x put at the 0-based index k.
InsertAt(seq, k, x) == SubSeq(seq, 1, k) \o <<x>> \o SubSeq(seq, k + 1, Len(seq))

\* seq without x.
Without(seq, x) == SelectSeq(seq, LAMBDA e : e # x)

\* The same tasks with the same field values, whatever the array order.
SameCollection(a, b) ==
    /\ Len(a) = Len(b)
    /\ {a[i] : i \in 1..Len(a)} = {b[i] : i \in 1..Len(b)}

\* Every stored updatedAt is earlier than the clock's reading.
ClockIsLater == \A i \in 1..Len(tasks) : tasks[i].updatedAt < clock

Mutating == {"addTask", "updateTask", "deleteTask"}

\* This step is a call of op: not the clock's tick, which leaves `last` with
\* an earlier reading, nor a refetch or a change of the filter, which leave
\* `last` as it was and change the snapshot or the filter.
Called(op) ==
    /\ last'.op = op
    /\ last'.at = clock'
    /\ view' = view
    /\ filters' = filters

\* The board shows the collection as it is: the snapshot is what getTasks()
\* returns now and the filter hides none of its tasks.
BoardShowsStore ==
    /\ view = <<getTasks(tasks)>>
    /\ applyFilters(view[1], filters) = view[1]

\* The lane a drop on `over` aims at.
DropLane(ts, over) ==
    IF over.kind = "column" THEN over.status ELSE TaskOf(ts, over.id).status

\* The index a drop on `over` aims at: the end of a column, the place of a card.
DropIndex(ts, over) ==
    IF over.kind = "column" THEN LaneSize(ts, over.status)
    ELSE TaskOf(ts, over.id).order

\* The ids of a list of tasks, in the list's order.
IdList(seq) == [i \in 1..Len(seq) |-> seq[i].id]

\* The place of x in seq, counted from 0.
IndexIn(seq, x) == (CHOOSE i \in 1..Len(seq) : seq[i] = x) - 1

\* The snapshot's tasks of lane s by ascending order, and those of them the
\* board shows under the filter.
SnapLane(s) == IdList(FilterSeq(view[1], s))

Shown(s) == IdList(FilterSeq(applyFilters(view[1], filters), s))

HiddenOf(s) == SelectSeq(SnapLane(s), LAMBDA x : \A i \in 1..Len(Shown(s)) : Shown(s)[i] # x)

\* The lane and the index among the shown cards that a drop on `over` aims at.
TargetLane(over) ==
    IF over.kind = "column" THEN over.status ELSE TaskOf(view[1], over.id).status

TargetIndex(over) ==
    IF over.kind = "column" THEN Len(Shown(over.status))
    ELSE IndexIn(Shown(TargetLane(over)), over.id)

\* The intended outcome of dropping the card id on `over`, for lane s: the
\* shown cards with the moved one taken out and put in at the target index of
\* the target lane, then the cards of the lane that the filter hides.
IntendedLane(s, id, over) ==
    LET rest == Without(Shown(s), id)
        k == IF TargetIndex(over) > Len(rest) THEN Len(rest) ELSE TargetIndex(over)
    IN  (IF s = TargetLane(over) THEN InsertAt(rest, k, id) ELSE rest) \o HiddenOf(s)

\* The lane that outcome puts the task x in.
IntendedStatus(x, id, over) ==
    CHOOSE s \in StatusSet :
        \E i \in 1..Len(IntendedLane(s, id, over)) : IntendedLane(s, id, over)[i] = x

RECURSIVE CollectionsOf(_, _, _)
\* The collection before the first of the calls and after each of them, the
\* calls run one after another, times[i] the clock's reading in the i-th.
CollectionsOf(ts, calls, times) ==
    IF calls = <<>> THEN <<ts>>
    ELSE <<ts>> \o CollectionsOf(updateTask(ts, Head(calls), Head(times)).tasks,
                                 Tail(calls), Tail(times))

\* The tasks whose lane or index differs between the snapshot and that outcome.
Shifted(id, over) ==
    {x \in IdsOf(view[1]) :
        \/ IntendedStatus(x, id, over) # TaskOf(view[1], x).status
        \/ IndexIn(IntendedLane(IntendedStatus(x, id, over), id, over), x)
                # TaskOf(view[1], x).order}

-----------------------------------------------------------------------------
\* C1: after every create, update and delete the order values of each lane
\* are exactly 0 .. n-1, n the number of tasks of the lane.
C1_DenseOrders == dbReady => \A s \in StatusSet : LaneDense(tasks, s)

C1_Witness ==
    /\ last.op = "updateTask" /\ last.res = "ok"
    /\ last.from # TaskOf(tasks, last.id).status
    /\ LaneSize(tasks, TaskOf(tasks, last.id).status) = 2
    /\ LaneSize(tasks, last.from) = 1

\* C2: a drop in another lane than the moved task's, with the board showing
\* the collection as it is, leaves the task in the target lane at the target
\* index and out of the source lane, the other tasks of both lanes in their
\* previous relative order and both lanes numbered 0 .. n-1.
C2_CrossLaneDrop ==
    [][(/\ Called("dragEnd")
        /\ BoardShowsStore
        /\ last'.over.kind # "none"
        /\ DropLane(tasks, last'.over) # TaskOf(tasks, last'.id).status) =>
        LET id == last'.id
            L1 == TaskOf(tasks, id).status
            L2 == DropLane(tasks, last'.over)
            k == DropIndex(tasks, last'.over)
        IN  /\ TaskOf(tasks', id).status = L2
            /\ LaneDense(tasks', L1) /\ LaneDense(tasks', L2)
            /\ LaneIds(tasks', L2) = InsertAt(LaneIds(tasks, L2), k, id)
            /\ LaneIds(tasks', L1) = Without(LaneIds(tasks, L1), id)]_vars

\* C3: update(id, {status: L2, order: k}) of a task of lane L1 # L2, with
\* 0 <= k <= size of L2 and a timestamp later than every stored updatedAt,
\* puts the task at index k of L2, takes it out of L1 and keeps the relative
\* order of all other tasks of both lanes.
C3_LaneMove ==
    (dbReady /\ ClockIsLater) =>
        \A i \in 1..Len(tasks) :
            \A L2 \in StatusSet \ {tasks[i].status} :
                \A k \in 0..LaneSize(tasks, L2) :
                    LET id == tasks[i].id
                        L1 == tasks[i].status
                        r == updateTask(tasks, [id |-> id, status |-> L2, order |-> k], clock)
                    IN  /\ r.res = "ok"
                        /\ TaskOf(r.tasks, id).status = L2
                        /\ TaskOf(r.tasks, id).order = k
                        /\ LaneIds(r.tasks, L2) = InsertAt(LaneIds(tasks, L2), k, id)
                        /\ LaneIds(r.tasks, L1) = Without(LaneIds(tasks, L1), id)

C3_Witness ==
    /\ last.op = "updateTask" /\ last.res = "ok"
    /\ {"status", "order"} \subseteq last.keys
    /\ last.from # TaskOf(tasks, last.id).status
    /\ LaneSize(tasks, TaskOf(tasks, last.id).status) = 3
    /\ TaskOf(tasks, last.id).order = 1
    /\ \A i \in 1..Len(tasks) :
            tasks[i].id # last.id => tasks[i].updatedAt < TaskOf(tasks, last.id).updatedAt

\* C4: a drop on another card of the moved task's own lane, with the board
\* showing the collection as it is, leaves the lane in the order got by
\* taking the task out and putting it back at the other card's index, and
\* every task in its lane.
C4_SameLaneDrop ==
    [][(/\ Called("dragEnd")
        /\ BoardShowsStore
        /\ last'.over.kind = "task"
        /\ last'.over.id # last'.id
        /\ DropLane(tasks, last'.over) = TaskOf(tasks, last'.id).status) =>
        LET id == last'.id
            L == TaskOf(tasks, id).status
            to == DropIndex(tasks, last'.over)
        IN  /\ \A i \in 1..Len(tasks) :
                    TaskOf(tasks', tasks[i].id).status = tasks[i].status
            /\ LaneDense(tasks', L)
            /\ LaneIds(tasks', L) = InsertAt(Without(LaneIds(tasks, L), id), to, id)]_vars

\* C5: a create without an explicit order puts the new task after all tasks
\* of its lane: its order is the lane's previous size, and the tasks that
\* were in the lane keep their order.
C5_CreateAppends ==
    [][(Called("addTask") /\ last'.res = "ok" /\ "order" \notin last'.keys) =>
        LET new == TaskOf(tasks', last'.id)
        IN  /\ last'.id \notin IdsOf(tasks)
            /\ new.order = LaneSize(tasks, new.status)
            /\ \A i \in 1..Len(tasks) :
                    /\ tasks[i].id \in IdsOf(tasks')
                    /\ tasks[i].status = new.status =>
                            TaskOf(tasks', tasks[i].id).order = tasks[i].order]_vars

C5_Witness ==
    /\ last.op = "addTask" /\ last.res = "ok" /\ "order" \notin last.keys
    /\ TaskOf(tasks, last.id).order = 2

\* C6: whenever the stored value is absent, empty, not parseable as JSON or
\* not a valid array of tasks, the constructor returns and the collection is
\* empty.
C6_CorruptStartsEmpty ==
    (last.op = "construct" /\ last.saved # "valid") =>
        (last.res = "ok" /\ dbReady /\ tasks = <<>>)

C9_UpdateNotFound ==
    [][(Called("updateTask") /\ last'.id \notin IdsOf(tasks)) =>
        (last'.res = "NotFound" /\ tasks' = tasks /\ storage' = storage)]_vars

C9_Witness ==
    /\ last.op = "updateTask" /\ last.res = "NotFound"
    /\ last.id \notin IdsOf(tasks)
    /\ Len(tasks) = 2

\* C10: a delete naming an id the collection does not hold returns without
\* error and leaves every task as it was.
C10_DeleteMissing ==
    [][(Called("deleteTask") /\ last'.id \notin IdsOf(tasks)) =>
        (last'.res = "ok" /\ tasks' = tasks)]_vars

C10_Witness ==
    /\ last.op = "deleteTask" /\ last.res = "ok"
    /\ last.from = ""
    /\ Len(tasks) = 3

\* C11: a create with an empty title, and an update that would leave a task
\* with an empty title, a status or priority outside the enums or a negative
\* order, ends with a validation error, and the collection and the persisted
\* value stay as they were.
C11_InvalidRejected ==
    [][(/\ Called("addTask") \/ Called("updateTask")
        /\ last'.bad
        /\ last'.op = "updateTask" => last'.id \in IdsOf(tasks)) =>
        (last'.res = "ZodError" /\ tasks' = tasks /\ storage' = storage)]_vars

C11_Witness ==
    /\ last.op = "updateTask" /\ last.bad /\ last.res = "ZodError"
    /\ "order" \in last.keys
    /\ Len(tasks) = 3
    /\ LaneSize(tasks, "done") = 2

\* C12: getTasks returns every task of the collection exactly once, by lane
\* (todo, in-progress, done), then by ascending order, then by latest
\* updatedAt first; it returns the empty list for the empty collection and
\* leaves the collection and the persisted value as they were.
C12_ListSorted ==
    [][(view' # view /\ view' # <<>>) =>
        LET r == view'[1]
            rank(t) == CASE t.status = "todo" -> 0
                         [] t.status = "in-progress" -> 1
                         [] t.status = "done" -> 2
        IN  /\ Len(r) = Len(tasks)
            /\ \A i \in 1..Len(tasks) :
                    Cardinality({j \in 1..Len(r) : r[j] = tasks[i]}) = 1
            /\ \A i \in 1..Len(r) : \A j \in (i + 1)..Len(r) :
                    \/ rank(r[i]) < rank(r[j])
                    \/ /\ rank(r[i]) = rank(r[j])
                       /\ \/ r[i].order < r[j].order
                          \/ /\ r[i].order = r[j].order
                             /\ r[i].updatedAt >= r[j].updatedAt
            /\ tasks' = tasks
            /\ storage' = storage]_vars

C12_Witness ==
    /\ view = <<getTasks(tasks)>>
    /\ Len(tasks) = 3
    /\ view[1] # tasks
    /\ LaneSize(tasks, "todo") = 2

\* C13: in every reachable state no two tasks of the collection have the
\* same id, and every task is in exactly one lane.
C13_UniqueIds ==
    /\ \A i \in 1..Len(tasks) : \A j \in 1..Len(tasks) :
            tasks[i].id = tasks[j].id => i = j
    /\ \A i \in 1..Len(tasks) :
            Cardinality({s \in StatusSet :
                            \E k \in 1..Len(Lane(tasks, s)) :
                                Lane(tasks, s)[k].id = tasks[i].id}) = 1

C13_Witness ==
    /\ last.op = "addTask" /\ last.res = "ok"
    /\ Len(tasks) = 3
    /\ \A s \in StatusSet : LaneSize(tasks, s) = 1

\* C14: no step changes the id or the createdAt of a task that stays in the
\* collection, whatever the payload of an update holds.
C14_IdCreatedAtFixed ==
    [][/\ \A j \in 1..Len(tasks') :
            tasks'[j].id \in IdsOf(tasks) =>
                tasks'[j].createdAt = TaskOf(tasks, tasks'[j].id).createdAt
       /\ Called("updateTask") =>
            /\ Len(tasks') = Len(tasks)
            /\ \A i \in 1..Len(tasks) : tasks'[i].id = tasks[i].id]_vars

\* C15: applyFilters returns, in their input order, exactly the tasks that
\* pass every active clause: not done unless includeDone is true; of the
\* named status when one other than "all" is named; of the named priority
\* likewise; and, when a dueBefore bound is given, with a due date that is
\* not after the bound (a due date equal to the bound passes).
C15_FilterExact ==
    last.op = "applyFilters" =>
        LET f == last.filter
            passes(t) ==
                /\ t.status = "done" => (Has(f, "includeDone") /\ f.includeDone)
                /\ (Has(f, "status") /\ f.status # "all") => t.status = f.status
                /\ (Has(f, "priority") /\ f.priority # "all") => t.priority = f.priority
                /\ Has(f, "dueBefore") =>
                        \E d \in t.dueDate : \E b \in f.dueBefore :
                            Has(d, "day") /\ d.day <= b.day
        IN  last.ret = SelectSeq(last.arg, passes)

C15_Witness ==
    /\ last.op = "applyFilters"
    /\ Has(last.filter, "dueBefore") /\ Has(last.filter, "priority")
    /\ Len(last.arg) = 2 /\ Len(last.ret) = 1
    /\ last.arg[1].dueDate = {[day |-> 3]}
    /\ last.ret[1].dueDate = last.filter.dueBefore

\* C16: applying the filter to its own result gives the result again, and a
\* call changes neither the list it was given nor the store.
C16_FilterIdempotent ==
    [][(last'.op = "applyFilters" /\ last' # last) =>
        /\ applyFilters(last'.ret, last'.filter) = last'.ret
        /\ (/\ last.op = "applyFilters"
            /\ last'.arg = last.ret
            /\ last'.filter = last.filter) => last'.ret = last.ret
        /\ last'.arg = view[1]
        /\ view' = view /\ tasks' = tasks /\ storage' = storage]_vars

C16_Witness ==
    /\ last.op = "applyFilters"
    /\ last.arg = last.ret
    /\ Len(last.ret) = 1 /\ last.ret[1].id = 2
    /\ Has(last.filter, "status")

\* C17: a filter whose includeDone is false or left out returns no done
\* task, whatever its other clauses are.
C17_DoneHidden ==
    (/\ last.op = "applyFilters"
     /\ ~Has(last.filter, "includeDone") \/ ~last.filter.includeDone) =>
        \A i \in 1..Len(last.ret) : last.ret[i].status # "done"

C17_Witness ==
    /\ last.op = "applyFilters"
    /\ ~Has(last.filter, "includeDone")
    /\ Has(last.filter, "status") /\ last.filter.status = "done"
    /\ Len(last.arg) = 2 /\ last.arg[2].status = "done"
    /\ last.ret = <<>>

\* C18: a drop issues one update call for each task whose lane or index
\* differs between the snapshot and the intended outcome and for no other
\* task, no task gets two calls, and each call carries the task's new lane
\* and its new index as order.
C18_OneCallPerShift ==
    [][(Called("dragEnd") /\ last'.over.kind # "none") =>
        LET id == last'.id
            over == last'.over
            calls == handleDragEnd(view, filters, id, over)
        IN  /\ \A i \in 1..Len(calls) : \A j \in 1..Len(calls) :
                    calls[i].id = calls[j].id => i = j
            /\ {calls[i].id : i \in 1..Len(calls)} = Shifted(id, over)
            /\ \A i \in 1..Len(calls) :
                    /\ calls[i].status = IntendedStatus(calls[i].id, id, over)
                    /\ calls[i].order =
                            IndexIn(IntendedLane(calls[i].status, id, over), calls[i].id)]_vars

\* C19: a drag that ends over nothing, or whose target resolves to the moved
\* card's own lane and the index the card has among the cards shown there,
\* issues no store call and leaves every task as it was.
C19_NoMoveNoCall ==
    [][(/\ Called("dragEnd")
        /\ \/ last'.over.kind = "none"
           \/ /\ TargetLane(last'.over) = TaskOf(view[1], last'.id).status
              /\ TargetIndex(last'.over) =
                    IndexIn(Shown(TargetLane(last'.over)), last'.id)) =>
        /\ handleDragEnd(view, filters, last'.id, last'.over) = <<>>
        /\ last'.res = "return"
        /\ tasks' = tasks
        /\ storage' = storage]_vars

C19_Witness ==
    /\ last.op = "dragEnd" /\ last.res = "return"
    /\ last.over = OverTask(last.id)
    /\ Len(tasks) = 3
    /\ LaneSize(tasks, TaskOf(tasks, last.id).status) = 2
    /\ TaskOf(tasks, last.id).order = 0

\* C20: a drop that moves a card, with the board's snapshot up to date and
\* whatever the filter, issues no update call for a task of a lane that is
\* neither the moved card's lane nor the lane dropped on, and leaves the order
\* and the updatedAt of every such task as they were.
C20_OtherLanesUntouched ==
    [][(/\ Called("dragEnd")
        /\ view = <<getTasks(tasks)>>
        /\ last'.over.kind # "none") =>
        LET id == last'.id
            over == last'.over
            calls == handleDragEnd(view, filters, id, over)
        IN  \A i \in 1..Len(tasks) :
                tasks[i].status \notin {TaskOf(tasks, id).status, TargetLane(over)} =>
                    /\ \A j \in 1..Len(calls) : calls[j].id # tasks[i].id
                    /\ TaskOf(tasks', tasks[i].id).order = tasks[i].order
                    /\ TaskOf(tasks', tasks[i].id).updatedAt = tasks[i].updatedAt]_vars

C22_DeletePresent ==
    [][(Called("deleteTask") /\ last'.id \in IdsOf(tasks)) =>
        LET id == last'.id
            L == TaskOf(tasks, id).status
        IN  /\ last'.res = "ok"
            /\ Len(tasks') = Len(tasks) - 1
            /\ IdsOf(tasks') = IdsOf(tasks) \ {id}
            /\ LaneDense(tasks', L)
            /\ LaneIds(tasks', L) = Without(LaneIds(tasks, L), id)
            /\ \A i \in 1..Len(tasks) :
                    tasks[i].status # L => TaskOf(tasks', tasks[i].id) = tasks[i]]_vars

\* A task of a lane of three has been deleted.
C22_Witness ==
    /\ last.op = "deleteTask" /\ last.from # ""
    /\ LaneSize(tasks, last.from) = 2
    /\ Len(tasks) = 2

\* The only task of a lane has been deleted.
C22_WitnessEmptied ==
    /\ last.op = "deleteTask" /\ last.from # ""
    /\ LaneSize(tasks, last.from) = 0
    /\ Len(tasks) = 2

\* C23: update(id, {order: k}) of a task of a lane of n tasks, 0 <= k < n,
\* without a change of lane and with a timestamp later than every stored
\* updatedAt, leaves the task at index k of its lane, k below or above the
\* index it had, and the other tasks of the lane in their previous order.
C23_SameLaneOrder ==
    (dbReady /\ ClockIsLater) =>
        \A i \in 1..Len(tasks) :
            \A k \in 0..(LaneSize(tasks, tasks[i].status) - 1) :
                \A r \in {updateTask(tasks, [id |-> tasks[i].id, order |-> k], clock)} :
                    LET id == tasks[i].id
                        L == tasks[i].status
                    IN  /\ r.res = "ok"
                        /\ TaskOf(r.tasks, id).status = L
                        /\ TaskOf(r.tasks, id).order = k
                        /\ LaneIds(r.tasks, L) = InsertAt(Without(LaneIds(tasks, L), id), k, id)

\* C24: the task addTask(input) and updateTask(update) return is, field for
\* field, the record a following getTasks() holds for that id, whatever the
\* input, an explicit order that is not the task's final index included.
C24_ReturnedIsStored ==
    dbReady =>
        /\ \A input \in AddInputs :
                \A r \in {addTask(tasks, input, randomUUID, clock)} :
                    r.res = "ok" => r.ret[1] = TaskOf(getTasks(r.tasks), randomUUID)
        /\ \A update \in UpdateCalls :
                \A r \in {updateTask(tasks, update, clock)} :
                    r.res = "ok" => r.ret[1] = TaskOf(getTasks(r.tasks), update.id)

\* C25: every stored task has an order, so updateTask never falls back to the
\* next free order of the lane; an update that names another lane and no
\* order, the status selector's payload or the bare {id, status}, with a
\* timestamp later than every stored updatedAt, puts the task in the new lane
\* at index min(its old order, the lane's size), ahead of the task that held
\* that index.
C25_StatusChangeKeepsHint ==
    dbReady =>
        /\ \A i \in 1..Len(tasks) : Has(tasks[i], "order")
        /\ ClockIsLater =>
            \A i \in 1..Len(tasks) :
                \A L2 \in StatusSet \ {tasks[i].status} :
                    \A update \in {[id |-> tasks[i].id, status |-> L2],
                                   StatusChangePayload(tasks[i], L2)} :
                        \A r \in {updateTask(tasks, update, clock)} :
                            LET id == tasks[i].id
                                n == LaneSize(tasks, L2)
                                k == IF tasks[i].order < n THEN tasks[i].order ELSE n
                            IN  /\ r.res = "ok"
                                /\ TaskOf(r.tasks, id).status = L2
                                /\ TaskOf(r.tasks, id).order = k
                                /\ LaneIds(r.tasks, L2) = InsertAt(LaneIds(tasks, L2), k, id)
                                /\ LaneIds(r.tasks, tasks[i].status)
                                        = Without(LaneIds(tasks, tasks[i].status), id)

\* A task has been moved by {id, status} alone to a lane of two others and
\* stands first there, later than both.
C25_Witness ==
    /\ last.op = "updateTask" /\ last.res = "ok"
    /\ last.keys = {"id", "status"}
    /\ last.from # TaskOf(tasks, last.id).status
    /\ LaneSize(tasks, TaskOf(tasks, last.id).status) = 3
    /\ TaskOf(tasks, last.id).order = 0
    /\ \A i \in 1..Len(tasks) :
            tasks[i].id # last.id => tasks[i].updatedAt < TaskOf(tasks, last.id).updatedAt

\* C26: addTask, updateTask and deleteTask for the task X leave every other
\* task in the collection with its title, description, status, priority,
\* dueDate, createdAt and updatedAt, whatever becomes of its order; an
\* updateTask that succeeds leaves X with the call's timestamp as updatedAt,
\* whatever the payload carries.
C26_OthersKeepFields ==
    [][(Called("addTask") \/ Called("updateTask") \/ Called("deleteTask")) =>
        /\ \A i \in 1..Len(tasks) :
                tasks[i].id # last'.id =>
                    /\ tasks[i].id \in IdsOf(tasks')
                    /\ [TaskOf(tasks', tasks[i].id) EXCEPT !.order = tasks[i].order]
                            = tasks[i]
        /\ (last'.op = "updateTask" /\ last'.res = "ok") =>
                TaskOf(tasks', last'.id).updatedAt = clock]_vars

\* A task has been moved to the head of a lane that held one older task,
\* which is renumbered and keeps its updatedAt.
C26_Witness ==
    /\ last.op = "updateTask" /\ last.res = "ok"
    /\ last.from # TaskOf(tasks, last.id).status
    /\ LaneSize(tasks, TaskOf(tasks, last.id).status) = 2
    /\ TaskOf(tasks, last.id).order = 0
    /\ TaskOf(tasks, last.id).updatedAt = MaxTime
    /\ \E i \in 1..Len(tasks) :
            /\ tasks[i].status = TaskOf(tasks, last.id).status
            /\ tasks[i].order = 1
            /\ tasks[i].updatedAt < MaxTime

\* An update whose payload carries an updatedAt has succeeded.
C26_WitnessOwnStamp ==
    /\ last.op = "updateTask" /\ last.res = "ok"
    /\ "updatedAt" \in last.keys
    /\ last.at = MaxTime

\* C27: in every state the store reaches, an update that changes neither the
\* lane nor the order of its task (a field of the editor, the editor's form,
\* the task's own status or order handed back) succeeds and leaves every
\* task of the collection, the updated one too, with its status and order.
C27_EditKeepsPlaces ==
    dbReady =>
        \A i \in 1..Len(tasks) :
            \A update \in EditorPayloads(tasks[i]) :
                \A r \in {updateTask(tasks, update, clock)} :
                    /\ r.res = "ok"
                    /\ Len(r.tasks) = Len(tasks)
                    /\ \A j \in 1..Len(tasks) :
                            /\ r.tasks[j].id = tasks[j].id
                            /\ r.tasks[j].status = tasks[j].status
                            /\ r.tasks[j].order = tasks[j].order

\* The second of a lane's three tasks has been handed its own status and is
\* now the most recently updated of the lane.
C27_Witness ==
    /\ last.op = "updateTask" /\ last.res = "ok"
    /\ last.keys = {"id", "status"}
    /\ last.from = TaskOf(tasks, last.id).status
    /\ LaneSize(tasks, last.from) = 3
    /\ TaskOf(tasks, last.id).order = 1
    /\ \A i \in 1..Len(tasks) :
            tasks[i].id # last.id => tasks[i].updatedAt < TaskOf(tasks, last.id).updatedAt

\* C28: a drop that issues calls while the filter hides a task of the
\* snapshot, the snapshot up to date: once the calls are done each lane of the
\* store is, by ascending order, the cards shown in their dropped order and
\* then the hidden tasks of the lane in the order they had.
C28_VisibleThenHidden ==
    [][(/\ Called("dragEnd")
        /\ last'.res = "ok"
        /\ view = <<getTasks(tasks)>>
        /\ applyFilters(view[1], filters) # view[1]) =>
        \A s \in StatusSet :
            LaneIds(tasks', s) = IntendedLane(s, last'.id, last'.over)]_vars

====
